---------------------------- MODULE Spec2Model ----------------------------
(***************************************************************************)
(* Motion detector of the browser security camera.                         *)
(*                                                                         *)
(* Two detectors are modelled, each under its own specification:           *)
(*   Spec     MotionSecurityCamera (src/app.js, first class definition)    *)
(*   SpecApp  SecurityCameraApp    (src/intro.js)                          *)
(* and the frame comparison itself, as a function of its inputs, under     *)
(*   SpecFn.                                                               *)
(* Further specifications of MotionSecurityCamera:                         *)
(*   SpecEx    one cycle on a 2 x 2 canvas                                 *)
(*   SpecCd    the cooldown after construction, at three clock values      *)
(*   SpecFail  a collaborator of onMotionDetected may throw                *)
(*   SpecSens  a sensitivity slider with unconfined values                 *)
(* and of the page:                                                        *)
(*   SpecIntro the intro sequence and the terms screen (src/intro.js)      *)
(*   SpecIntroFair one page load whose events and timers all arrive        *)
(* and of SecurityCameraApp:                                               *)
(*   SpecRec   recordings, their 30 s stop timers and the record button    *)
(* and of MotionSecurityCamera again:                                      *)
(*   SpecStore captures, alerts and their persistence in localStorage      *)
(*   SpecBlack the stealth overlay (black screen) and its double tap       *)
(*                                                                         *)
(* A frame is the data of an ImageData: a sequence of pixels, each pixel   *)
(* the tuple <<R, G, B, A>>.  Times are milliseconds, as Date.now().       *)
(***************************************************************************)
EXTENDS Integers, Sequences, FiniteSets

VARIABLES
    \* ---- MotionSecurityCamera (src/app.js) ----
    motionDetectionActive,  \* this.motionDetectionActive
    motionInterval,         \* this.motionInterval is set (the 100 ms timer exists)
    timers,                 \* interval timers setupMotionDetection has created (none is ever cleared)
    lastFrame,              \* this.lastFrame: Null or a frame
    alerts,                 \* this.alerts, newest first
    sessionCaptures,        \* this.sessionCaptures: images captured by this page
    sensitivity,            \* this.sensitivity
    motionThreshold,        \* this.motionThreshold (percent)
    cooldownPeriod,         \* this.cooldownPeriod (ms)
    lastCaptureTime,        \* this.lastCaptureTime (ms)
    \* ---- environment ----
    clock,                  \* the value Date.now() returns
    videoReady,             \* video.readyState === video.HAVE_ENOUGH_DATA
    \* ---- observation of the run (not program state) ----
    refFrame,               \* frame the video supplied in the latest cycle since the last reset
    lastStep,               \* what the latest step did
    \* ---- the page (src/intro.js) ----
    intro,                  \* IntroManager, the terms stored in localStorage, window.app
    recording,              \* SecurityCameraApp: isRecording, the running recording, the pending 30 s stop timers
    store,                  \* MotionSecurityCamera: this.captures, maxStorageImages and what localStorage holds
    blackScreen             \* MotionSecurityCamera: the stealth overlay, its tap count and tap timer

vars == <<motionDetectionActive, motionInterval, lastFrame, alerts, sessionCaptures,
          sensitivity, motionThreshold, cooldownPeriod, lastCaptureTime,
          clock, videoReady, refFrame, lastStep, intro, timers, recording, store, blackScreen>>

---------------------------------------------------------------------------
(* Bounds of the model *)

\* pixels per frame (canvas.width * canvas.height)
NPixels == 3
\* alerts a run may accumulate
MaxAlerts == 2
\* captures a run may accumulate
MaxCaptures == 2
\* Date.now() when the page is constructed
Epoch == 10000
\* the clock is observed at Epoch, Epoch + ClockStep, ... Epoch + MaxClockSteps * ClockStep
MaxClockSteps == 2
\* time between two observations of the clock (ms)
ClockStep == 2500
\* calls of window.initializeMainApp a page load may see
MaxInitCalls == 3
\* interval timers a run of SecurityCameraApp may accumulate
MaxTimers == 2
\* calls of SecurityCameraApp.startRecording in a run
MaxRecordings == 3
\* pictures the camera takes in a run of SpecStore
MaxTaken == 2
\* frames of the call stack of the JavaScript engine
StackLimit == 3
\* a maxImages setting that a run can exceed
SmallMaxImages == 3
\* observations of the clock in a run of SpecBlack, and the time between two (ms)
MaxTapSteps == 4
TapClockStep == 200

---------------------------------------------------------------------------
(* Frames *)

\* null: the empty frame stands for "no frame stored"
Null == <<>>

Black == <<0, 0, 0, 255>>
White == <<255, 255, 255, 255>>
Red == <<255, 0, 0, 255>>
Gray == <<128, 128, 128, 255>>

\* colours the camera shows in the runs of Spec and SpecApp
Palette == {Black, White}

FramesOver(palette) == [1..NPixels -> palette]

AllOf(px) == [i \in 1..NPixels |-> px]

\* frames the video element supplies: all black, one white pixel, all white
VideoFrames == {AllOf(Black), [AllOf(Black) EXCEPT ![1] = White], AllOf(White)}

Abs(x) == IF x < 0 THEN -x ELSE x

\* 300 * threshold, threshold = (100 - sensitivity) * 2.55 evaluated in IEEE
\* double arithmetic.  2.55 is not a double; of the products that the
\* comparison can hit exactly (255, 204, 153, 102, 51, 0) only 100 * 2.55
\* rounds away from the integer, to 254.99999999999997.
ThresholdX300(sens) == (100 - sens) * 765 - (IF sens = 0 THEN 1 ELSE 0)

\* TotalDiffX3 taking the largest channel difference for the mean
TotalDiffX3Max(cur, last, i) ==
    LET r == Abs(cur[i][1] - last[i][1])
        g == Abs(cur[i][2] - last[i][2])
        b == Abs(cur[i][3] - last[i][3])
        m == IF r >= g /\ r >= b THEN r ELSE IF g >= b THEN g ELSE b
    IN  3 * m

\* 3 * totalDiff of pixel i: rDiff + gDiff + bDiff (the alpha channel is not read)
TotalDiffX3(cur, last, i) ==
    Abs(cur[i][1] - last[i][1]) + Abs(cur[i][2] - last[i][2]) + Abs(cur[i][3] - last[i][3])

\* PixelChanged with >= for >
PixelChangedAtLeast(cur, last, sens, i) ==
    100 * TotalDiffX3(cur, last, i) >= ThresholdX300(sens)

\* totalDiff > threshold
PixelChanged(cur, last, sens, i) ==
    100 * TotalDiffX3(cur, last, i) > ThresholdX300(sens)

\* the highlight written into a changed pixel: R, G, B overwritten, A kept
Highlight(px) == <<255, 0, 0, px[4]>>

\* The comparison loop of detectMotion from pixel i on: currentFrame is
\* modified in place while it is compared.
RECURSIVE CompareFrames(_, _, _, _, _)
CompareFrames(cur, last, sens, i, changed) ==
    IF i > Len(cur)
    THEN [frame |-> cur, changedPixels |-> changed]
    ELSE IF PixelChanged(cur, last, sens, i)
         THEN CompareFrames([cur EXCEPT ![i] = Highlight(cur[i])], last, sens, i + 1, changed + 1)
         ELSE CompareFrames(cur, last, sens, i + 1, changed)

\* ExceedsMotionThreshold with the motionThreshold of the constructor (2), not
\* the one in force
ExceedsMotionThresholdInitial(changedPixels, pixelCount, thr) ==
    changedPixels * 100 > 2 * pixelCount

\* ExceedsMotionThreshold without the division by the pixel count
ExceedsMotionThresholdCount(changedPixels, pixelCount, thr) ==
    changedPixels * 100 > thr

\* motionPercentage > this.motionThreshold, motionPercentage = (changedPixels / pixelCount) * 100
ExceedsMotionThreshold(changedPixels, pixelCount, thr) ==
    changedPixels * 100 > thr * pixelCount

\* InCooldown without the test: no cooldown at all
InCooldownOff(now, last, cooldown) == FALSE

\* InCooldown with the cooldown taken in seconds
InCooldownSeconds(now, last, cooldown) == now - last < cooldown \div 1000

\* now - this.lastCaptureTime < this.cooldownPeriod
InCooldown(now, last, cooldown) == now - last < cooldown

\* 10 * motionLevel.toFixed(1): the percentage rounded to one decimal, half up
ToFixed1(changedPixels, pixelCount) ==
    (2000 * changedPixels + pixelCount) \div (2 * pixelCount)

---------------------------------------------------------------------------
(* The page: IntroManager, the stored terms acceptance, window.app *)

\* this.assetsToLoad.length
AssetCount == 3
\* days a stored acceptance of the terms is valid
TermsValidDays == 30
\* age in days of the acceptance found in localStorage at page load
TermsAges == {0, 29, 30, 31}
\* localStorage: <<>> (no termsAccepted item) or <<d>> (termsAccepted = 'true',
\* termsAcceptedDate d days ago)
StoredTerms == {<<>>} \cup {<<d>> : d \in TermsAges}

\* checkPreviousTermsAcceptance: termsAccepted === 'true' and daysDiff < 30
TermsStillValid(stored) == stored # <<>> /\ stored[1] < TermsValidDays

\* loadImage resolving only when the image loads
LoadImageResolvesOnLoad(loaded) == loaded

\* loadImage: the promise is resolved by onload and by onerror
LoadImageResolves(loaded) == TRUE

\* Math.round((loadedAssets / assetsToLoad.length) * 100)
LoadingProgress(loadedAssets, total) == (200 * loadedAssets + total) \div (2 * total)

\* the page before DOMContentLoaded, with the given localStorage; initCalls
\* counts the calls of window.initializeMainApp and constructions the
\* MotionSecurityCamera objects constructed since the page was loaded
IntroAtLoad(stored) ==
    [phase |-> "unloaded", loadedAssets |-> 0, failedAssets |-> 0, loadingProgress |-> 0,
     termsAccepted |-> FALSE, stored |-> stored, checked |-> FALSE,
     appShown |-> FALSE, app |-> "none", appInitialized |-> FALSE,
     initCalls |-> 0, constructions |-> 0]

\* SecurityCameraApp before any recording: isRecording, the recording the
\* MediaRecorder is running (0: its state is inactive, or there is none), the
\* calls of startRecording so far, the pending 30 s stop timers in the order
\* they were set (each remembered by the call of startRecording its motion
\* event made), and an observation of the latest stop: the timer that caused
\* it (0: a click) and the recording that was stopped
NoRecording ==
    [isRecording |-> FALSE, current |-> 0, attempts |-> 0, stopTimers |-> <<>>,
     lastStop |-> [timerOf |-> 0, recording |-> 0]]

\* the page once the intro sequence is over and MotionSecurityCamera runs
IntroOver ==
    [phase |-> "app", loadedAssets |-> AssetCount, failedAssets |-> 0, loadingProgress |-> 100,
     termsAccepted |-> TRUE, stored |-> <<0>>, checked |-> FALSE,
     appShown |-> TRUE, app |-> "MotionSecurityCamera", appInitialized |-> TRUE,
     initCalls |-> 1, constructions |-> 1]

---------------------------------------------------------------------------
(* Captures of MotionSecurityCamera and their persistence (src/app.js).  A    *)
(* capture is [id, imageData]: id is Date.now() at the capture, imageData the *)
(* picture, here the number of the picture the camera took (pictures of an    *)
(* earlier session have numbers below 1).  localStorage holds lists; a key    *)
(* that was never written reads as the empty list, which is what               *)
(* loadSavedData makes of it.                                                  *)

\* captures.slice(0, 10): the captures saveCaptures writes
SavedCaptures == 10
\* captures.slice(0, 5): what saveCaptures keeps after QuotaExceededError
RetryCaptures == 5
\* alerts.slice(0, 100): the alerts saveAlerts writes
SavedAlerts == 100
DefaultMaxStorageImages == 100
\* retentionDays when the field is empty, and a day in ms
DefaultRetentionDays == 7
DayMs == 86400000

\* s.slice(0, n)
FirstN(s, n) == SubSeq(s, 1, IF n < Len(s) THEN n ELSE Len(s))

\* manageStorage keeping the oldest captures when the limit is exceeded
ManageStorageKeepOldest(captures, max, autoDelete, now) ==
    LET limited == IF Len(captures) > max
                   THEN SubSeq(captures, Len(captures) - max + 1, Len(captures))
                   ELSE captures
    IN  IF autoDelete
        THEN SelectSeq(limited, LAMBDA c : c.id > now - DefaultRetentionDays * DayMs)
        ELSE limited

\* manageStorage: splice(maxStorageImages), then the retention filter when
\* autoDelete is checked
ManageStorage(captures, max, autoDelete, now) ==
    LET limited == IF Len(captures) > max THEN FirstN(captures, max) ELSE captures
    IN  IF autoDelete
        THEN SelectSeq(limited, LAMBDA c : c.id > now - DefaultRetentionDays * DayMs)
        ELSE limited

\* saveCaptures, its depth-th nested call.  room is the number of captures
\* localStorage has room for: setItem raises QuotaExceededError when the list
\* is longer.  The catch truncates and calls saveCaptures again with no limit
\* of its own; the nesting ends when the call stack of the engine is
\* exhausted (StackLimit frames), with a RangeError.
RECURSIVE SaveCaptures(_, _, _, _)
SaveCaptures(captures, stored, room, depth) ==
    IF depth > StackLimit
    THEN [captures |-> captures, stored |-> stored, attempts |-> depth - 1,
          outcome |-> "stackOverflow"]
    ELSE IF Len(FirstN(captures, SavedCaptures)) <= room
    THEN [captures |-> captures, stored |-> FirstN(captures, SavedCaptures),
          attempts |-> depth, outcome |-> "saved"]
    ELSE SaveCaptures(FirstN(captures, RetryCaptures), stored, room, depth + 1)

\* saveAlerts writing the whole list
SaveAlertsAll(list, stored, alertsOk) ==
    IF alertsOk THEN list ELSE stored

\* saveAlerts: a failure of setItem is caught and logged
SaveAlerts(list, stored, alertsOk) ==
    IF alertsOk THEN FirstN(list, SavedAlerts) ELSE stored

\* the instance after construction and loadSavedData, with the lists and the
\* maxImages setting localStorage holds (0: no settings stored); taken counts
\* the pictures the camera took, lastSave observes the latest saveCaptures
StoreAtLoad(storedCaptures, storedAlerts, storedMaxImages, taken) ==
    [captures |-> storedCaptures,
     maxStorageImages |-> IF storedMaxImages # 0 THEN storedMaxImages
                          ELSE DefaultMaxStorageImages,
     storedCaptures |-> storedCaptures, storedAlerts |-> storedAlerts,
     storedMaxImages |-> storedMaxImages, taken |-> taken,
     lastSave |-> [attempts |-> 0, outcome |-> "none", alertsSaved |-> TRUE]]

NoStore == StoreAtLoad(<<>>, <<>>, 0, 0)

\* captureMotionImage on the store: unshift, manageStorage, saveCaptures
CaptureInto(st, now, autoDelete, room) ==
    LET capture == [id |-> now, imageData |-> st.taken + 1]
        managed == ManageStorage(<<capture>> \o st.captures, st.maxStorageImages,
                                 autoDelete, now)
        saved == SaveCaptures(managed, st.storedCaptures, room, 1)
    IN  [st EXCEPT !.captures = saved.captures, !.storedCaptures = saved.stored,
                   !.taken = @ + 1,
                   !.lastSave = [@ EXCEPT !.attempts = saved.attempts,
                                          !.outcome = saved.outcome]]

---------------------------------------------------------------------------
(* MotionSecurityCamera *)

DefaultSensitivity == 30
DefaultCooldownPeriod == 5000
DefaultMotionThreshold == 2

\* values the sensitivity slider is moved to
SensitivityValues == {30, 50}
\* values (seconds) of the capture delay slider and of the cooldown setting
CooldownSeconds == {2, 5}
\* values of the motion threshold setting
ThresholdValues == {2, 50}

\* lastStep: kind of the latest step; for a detection cycle the changed pixels
\* it counted (-1: none counted) and whether it emitted an event; hadFrame:
\* a previous frame was stored when the step began
StepInfo(kind, changed, emitted, hadFrame) ==
    [kind |-> kind, changed |-> changed, emitted |-> emitted, hadFrame |-> hadFrame]

OtherStep == StepInfo("other", -1, FALSE, lastFrame # Null)

\* The stealth overlay.  checked: the blackScreenMode checkbox; active:
\* this.blackScreenActive; tapCount: this.tapCount; tapTimer: the time the
\* pending tap-count reset timer is due (0: none is pending).  Observations:
\* lastTap, the time of the latest tap handled while the overlay was active
\* (-1: none), and tapInActivation, whether it was handled since the overlay
\* was last activated.  The text shown after a tap and its 3 s timer are display
\* only.
NoBlackScreen ==
    [checked |-> FALSE, active |-> FALSE, tapCount |-> 0, tapTimer |-> 0,
     lastTap |-> -1, tapInActivation |-> FALSE]

\* setTimeout(() => { this.tapCount = 0; }, 500)
TapResetMs == 500

ActivateBlackScreen(bs) ==
    [bs EXCEPT !.active = TRUE, !.tapCount = 0, !.tapInActivation = FALSE]

\* deactivateBlackScreen clears the tap timer and leaves tapCount alone
DeactivateBlackScreen(bs) ==
    [bs EXCEPT !.active = FALSE, !.tapTimer = 0]

\* BlackScreenAfterToggle leaving the overlay on when detection is switched off
BlackScreenAfterToggleStays(bs, nowActive) ==
    IF nowActive /\ bs.checked THEN ActivateBlackScreen(bs) ELSE bs

\* the overlay after toggleMotionDetection set the flag to nowActive
BlackScreenAfterToggle(bs, nowActive) ==
    IF nowActive
    THEN IF bs.checked THEN ActivateBlackScreen(bs) ELSE bs
    ELSE IF bs.active THEN DeactivateBlackScreen(bs) ELSE bs

\* OverlayClick deactivating at the third tap
OverlayClickTriple(bs, now) ==
    IF ~bs.active
    THEN bs
    ELSE LET n == bs.tapCount + 1
         IN  IF n = 3
             THEN [DeactivateBlackScreen(bs) EXCEPT !.tapCount = 0, !.lastTap = now,
                                                    !.tapInActivation = TRUE]
             ELSE [bs EXCEPT !.tapCount = n, !.tapTimer = now + TapResetMs,
                             !.lastTap = now, !.tapInActivation = TRUE]

\* the click listener of the overlay, at time now: the pending timer is
\* cleared, the tap is counted, the second tap deactivates, any other tap
\* starts the reset timer
OverlayClick(bs, now) ==
    IF ~bs.active
    THEN bs
    ELSE LET n == bs.tapCount + 1
         IN  IF n = 2
             THEN [DeactivateBlackScreen(bs) EXCEPT !.tapCount = 0, !.lastTap = now,
                                                    !.tapInActivation = TRUE]
             ELSE [bs EXCEPT !.tapCount = n, !.tapTimer = now + TapResetMs,
                             !.lastTap = now, !.tapInActivation = TRUE]

Init ==
    /\ motionDetectionActive = FALSE
    /\ motionInterval = FALSE
    /\ timers = 0
    /\ blackScreen = NoBlackScreen
    /\ store = NoStore
    /\ recording = NoRecording
    /\ lastFrame = Null
    /\ alerts = <<>>
    /\ sessionCaptures = 0
    /\ sensitivity = DefaultSensitivity
    /\ motionThreshold = DefaultMotionThreshold
    /\ cooldownPeriod = DefaultCooldownPeriod
    /\ lastCaptureTime = 0
    /\ clock = Epoch
    /\ videoReady = FALSE
    /\ refFrame = Null
    /\ lastStep = StepInfo("other", -1, FALSE, FALSE)
    /\ intro = IntroOver

\* initCamera succeeded: setupMotionDetection creates the interval timer once
SetupMotionDetection ==
    /\ ~motionInterval
    /\ motionInterval' = TRUE
    /\ lastStep' = OtherStep
    /\ UNCHANGED <<motionDetectionActive, lastFrame, alerts, sessionCaptures, sensitivity,
                   motionThreshold, cooldownPeriod, lastCaptureTime, clock, videoReady, refFrame>>
    /\ UNCHANGED <<intro, recording, store, blackScreen>>
    /\ timers' = timers + 1

\* captureMotionImage counts the capture it stores; a failure of the canvas
\* calls is caught inside, before the count
CaptureMotionImage(count, captureOk) ==
    IF captureOk THEN count + 1 ELSE count

\* The alert onMotionDetected creates
NewAlert(now, changedPixels, pixelCount) ==
    [id |-> now, motionLevel |-> ToFixed1(changedPixels, pixelCount), read |-> FALSE]

\* detectMotion with the frame the video supplies; frameOk = FALSE is
\* drawImage or getImageData throwing, which the catch swallows.  The canvas is
\* overwritten by drawImage at the start of every cycle, so it is a local here.
\* onMotionDetected reads the clock once; saveAlerts, showNotification and
\* captureMotionImage catch their own failures and return.
DetectMotion(frame, frameOk, captureOk) ==
    IF ~frameOk
    THEN /\ lastStep' = StepInfo("failed", -1, FALSE, lastFrame # Null)
         /\ UNCHANGED <<lastFrame, alerts, sessionCaptures, lastCaptureTime, refFrame>>
    ELSE IF lastFrame = Null
    THEN /\ lastFrame' = frame
         /\ refFrame' = frame
         /\ lastStep' = StepInfo("baseline", -1, FALSE, FALSE)
         /\ UNCHANGED <<alerts, sessionCaptures, lastCaptureTime>>
    ELSE LET res == CompareFrames(frame, lastFrame, sensitivity, 1, 0)
             pixelCount == Len(frame)
             fire == /\ ExceedsMotionThreshold(res.changedPixels, pixelCount, motionThreshold)
                     /\ ~InCooldown(clock, lastCaptureTime, cooldownPeriod)
         IN  /\ lastFrame' = res.frame
             /\ refFrame' = frame
             /\ lastStep' = StepInfo("compared", res.changedPixels, fire, TRUE)
             /\ IF fire
                THEN /\ sessionCaptures' = CaptureMotionImage(sessionCaptures, captureOk)
                     /\ alerts' = <<NewAlert(clock, res.changedPixels, pixelCount)>> \o alerts
                     /\ lastCaptureTime' = clock
                ELSE UNCHANGED <<alerts, sessionCaptures, lastCaptureTime>>

\* ShouldDetect without the test of video.readyState
ShouldDetectNoReady(active, ready) == active

\* ShouldDetect without the test of the enabled flag
ShouldDetectNoFlag(active, ready) == ready

\* the condition under which the timer callback calls detectMotion
ShouldDetect(active, ready) == active /\ ready

\* One firing of the interval timer
Tick ==
    /\ motionInterval
    /\ Len(alerts) < MaxAlerts
    /\ sessionCaptures < MaxCaptures
    /\ IF ShouldDetect(motionDetectionActive, videoReady)
       THEN \E frame \in VideoFrames, frameOk \in BOOLEAN, captureOk \in BOOLEAN :
                DetectMotion(frame, frameOk, captureOk)
       ELSE /\ lastStep' = StepInfo("skipped", -1, FALSE, lastFrame # Null)
            /\ UNCHANGED <<lastFrame, alerts, sessionCaptures, lastCaptureTime, refFrame>>
    /\ UNCHANGED <<motionDetectionActive, motionInterval, sensitivity, motionThreshold,
                   cooldownPeriod, clock, videoReady>>
    /\ UNCHANGED <<intro, timers, recording, store, blackScreen>>

\* LastFrameAfterToggle keeping the frame
LastFrameAfterToggleKeep(nowActive, frame) == frame

\* this.lastFrame after toggleMotionDetection set the flag to nowActive
LastFrameAfterToggle(nowActive, frame) == IF nowActive THEN frame ELSE Null

\* ToggleMotionDetection that cancels the interval timer when it disables
ToggleMotionDetectionClearsTimer ==
    /\ motionDetectionActive' = ~motionDetectionActive
    /\ motionInterval' = (motionInterval /\ motionDetectionActive')
    /\ lastFrame' = LastFrameAfterToggle(motionDetectionActive', lastFrame)
    /\ refFrame' = IF motionDetectionActive THEN Null ELSE refFrame
    /\ lastStep' = StepInfo(IF motionDetectionActive THEN "disable" ELSE "enable",
                            -1, FALSE, lastFrame # Null)
    /\ UNCHANGED <<alerts, sessionCaptures, sensitivity, motionThreshold,
                   cooldownPeriod, lastCaptureTime, clock, videoReady>>
    /\ blackScreen' = BlackScreenAfterToggle(blackScreen, motionDetectionActive')
    /\ UNCHANGED <<intro, timers, recording, store>>

\* Click on the toggle button, on the page that has the toggleDetection and
\* detectionStatus elements the handler looks up; with the blackScreenMode
\* checkbox checked, enabling activates the stealth overlay
ToggleMotionDetection ==
    /\ motionDetectionActive' = ~motionDetectionActive
    /\ lastFrame' = LastFrameAfterToggle(motionDetectionActive', lastFrame)
    /\ refFrame' = IF motionDetectionActive THEN Null ELSE refFrame
    /\ lastStep' = StepInfo(IF motionDetectionActive THEN "disable" ELSE "enable",
                            -1, FALSE, lastFrame # Null)
    /\ UNCHANGED <<motionInterval, alerts, sessionCaptures, sensitivity, motionThreshold,
                   cooldownPeriod, lastCaptureTime, clock, videoReady>>
    /\ blackScreen' = BlackScreenAfterToggle(blackScreen, motionDetectionActive')
    /\ UNCHANGED <<intro, timers, recording, store>>

\* ManualCapture that also resets the frame comparison
ManualCaptureResetsFrame ==
    /\ sessionCaptures < MaxCaptures
    /\ IF videoReady
       THEN \E captureOk \in BOOLEAN : sessionCaptures' = CaptureMotionImage(sessionCaptures, captureOk)
       ELSE UNCHANGED sessionCaptures
    /\ lastFrame' = IF videoReady THEN Null ELSE lastFrame
    /\ lastStep' = OtherStep
    /\ UNCHANGED <<motionDetectionActive, motionInterval, alerts, sensitivity,
                   motionThreshold, cooldownPeriod, lastCaptureTime, clock, videoReady, refFrame>>
    /\ UNCHANGED <<intro, timers, recording, store, blackScreen>>

\* Click on "manual capture"
ManualCapture ==
    /\ sessionCaptures < MaxCaptures
    /\ IF videoReady
       THEN \E captureOk \in BOOLEAN : sessionCaptures' = CaptureMotionImage(sessionCaptures, captureOk)
       ELSE UNCHANGED sessionCaptures
    /\ lastStep' = OtherStep
    /\ UNCHANGED <<motionDetectionActive, motionInterval, lastFrame, alerts, sensitivity,
                   motionThreshold, cooldownPeriod, lastCaptureTime, clock, videoReady, refFrame>>
    /\ UNCHANGED <<intro, timers, recording, store, blackScreen>>

\* ClearMotionArea clearing the canvas only
ClearMotionAreaCanvasOnly ==
    /\ refFrame' = Null
    /\ lastStep' = StepInfo("clear", -1, FALSE, lastFrame # Null)
    /\ UNCHANGED <<motionDetectionActive, motionInterval, lastFrame, alerts, sessionCaptures,
                   sensitivity, motionThreshold, cooldownPeriod, lastCaptureTime, clock,
                   videoReady>>
    /\ UNCHANGED <<intro, timers, recording, store, blackScreen>>

\* Click on "clear motion area"
ClearMotionArea ==
    /\ lastFrame' = Null
    /\ refFrame' = Null
    /\ lastStep' = StepInfo("clear", -1, FALSE, lastFrame # Null)
    /\ UNCHANGED <<motionDetectionActive, motionInterval, alerts, sessionCaptures, sensitivity,
                   motionThreshold, cooldownPeriod, lastCaptureTime, clock, videoReady>>
    /\ UNCHANGED <<intro, timers, recording, store, blackScreen>>

\* input event of the sensitivity slider
SensitivityInput ==
    /\ \E v \in SensitivityValues : sensitivity' = v
    /\ lastStep' = OtherStep
    /\ UNCHANGED <<motionDetectionActive, motionInterval, lastFrame, alerts, sessionCaptures,
                   motionThreshold, cooldownPeriod, lastCaptureTime, clock, videoReady, refFrame>>
    /\ UNCHANGED <<intro, timers, recording, store, blackScreen>>

\* input event of the capture delay slider
CaptureDelayInput ==
    /\ \E v \in CooldownSeconds : cooldownPeriod' = v * 1000
    /\ lastStep' = OtherStep
    /\ UNCHANGED <<motionDetectionActive, motionInterval, lastFrame, alerts, sessionCaptures,
                   sensitivity, motionThreshold, lastCaptureTime, clock, videoReady, refFrame>>
    /\ UNCHANGED <<intro, timers, recording, store, blackScreen>>

\* Click on "save settings"
SaveSettings ==
    /\ \E thr \in ThresholdValues, cd \in CooldownSeconds :
          /\ motionThreshold' = thr
          /\ cooldownPeriod' = cd * 1000
    /\ lastStep' = OtherStep
    /\ UNCHANGED <<motionDetectionActive, motionInterval, lastFrame, alerts, sessionCaptures,
                   sensitivity, lastCaptureTime, clock, videoReady, refFrame>>
    /\ UNCHANGED <<intro, timers, recording, store, blackScreen>>

\* Click on "reset settings", confirmed
ResetSettings ==
    /\ motionThreshold' = DefaultMotionThreshold
    /\ cooldownPeriod' = DefaultCooldownPeriod
    /\ sensitivity' = DefaultSensitivity
    /\ lastStep' = OtherStep
    /\ UNCHANGED <<motionDetectionActive, motionInterval, lastFrame, alerts, sessionCaptures,
                   lastCaptureTime, clock, videoReady, refFrame>>
    /\ blackScreen' = [blackScreen EXCEPT !.checked = FALSE]
    /\ UNCHANGED <<intro, timers, recording, store>>

\* Time passes
ClockAdvance ==
    /\ clock < Epoch + MaxClockSteps * ClockStep
    /\ clock' = clock + ClockStep
    /\ lastStep' = OtherStep
    /\ UNCHANGED <<motionDetectionActive, motionInterval, lastFrame, alerts, sessionCaptures,
                   sensitivity, motionThreshold, cooldownPeriod, lastCaptureTime, videoReady, refFrame>>
    /\ UNCHANGED <<intro, timers, recording, store, blackScreen>>

\* The video element gains or loses HAVE_ENOUGH_DATA
VideoReadyChange ==
    /\ videoReady' = ~videoReady
    /\ lastStep' = OtherStep
    /\ UNCHANGED <<motionDetectionActive, motionInterval, lastFrame, alerts, sessionCaptures,
                   sensitivity, motionThreshold, cooldownPeriod, lastCaptureTime, clock, refFrame>>
    /\ UNCHANGED <<intro, timers, recording, store, blackScreen>>

Next ==
    \/ SetupMotionDetection
    \/ Tick
    \/ ToggleMotionDetection
    \/ ManualCapture
    \/ ClearMotionArea
    \/ SensitivityInput
    \/ CaptureDelayInput
    \/ SaveSettings
    \/ ResetSettings
    \/ ClockAdvance
    \/ VideoReadyChange

Spec == Init /\ [][Next]_vars

---------------------------------------------------------------------------
(* The frame comparison of MotionSecurityCamera as a function of its inputs:   *)
(* a stored baseline, every second frame, every sensitivity.                   *)

\* colours of the frames compared under SpecFn
FnPalette == {Black, White, Red, Gray}
\* sensitivities compared under SpecFn
FnSensitivities == {0, 30, 50, 100}

\* a detector that has just stored a baseline frame
InitFn ==
    /\ motionDetectionActive = TRUE
    /\ motionInterval = TRUE
    /\ timers = 1
    /\ blackScreen = NoBlackScreen
    /\ store = NoStore
    /\ recording = NoRecording
    /\ lastFrame \in FramesOver(FnPalette)
    /\ refFrame = lastFrame
    /\ alerts = <<>>
    /\ sessionCaptures = 0
    /\ sensitivity \in FnSensitivities
    /\ motionThreshold \in ThresholdValues
    /\ cooldownPeriod = DefaultCooldownPeriod
    /\ lastCaptureTime = 0
    /\ clock = Epoch
    /\ videoReady = TRUE
    /\ lastStep = StepInfo("baseline", -1, FALSE, FALSE)
    /\ intro = IntroOver

\* the cycle that follows the baseline cycle
FnSecondFrame ==
    /\ lastStep.kind = "baseline"
    /\ \E frame \in FramesOver(FnPalette) : DetectMotion(frame, TRUE, TRUE)
    /\ UNCHANGED <<motionDetectionActive, motionInterval, sensitivity, motionThreshold,
                   cooldownPeriod, clock, videoReady>>
    /\ UNCHANGED <<intro, timers, recording, store, blackScreen>>

NextFn == FnSecondFrame

SpecFn == InitFn /\ [][NextFn]_vars

---------------------------------------------------------------------------
(* One cycle of MotionSecurityCamera on a 2 x 2 canvas whose stored frame is   *)
(* all black.                                                                  *)

\* the data of a 2 x 2 ImageData, all black
ExBlackFrame == <<Black, Black, Black, Black>>
\* the 2 x 2 frames the video supplies
ExFrames == [DOMAIN ExBlackFrame -> {Black, Red, White}]
\* sensitivities of the 2 x 2 cycle
ExSensitivities == {50}

\* a detector with a black 2 x 2 baseline; emittedBefore: it emitted an event
\* at this clock value before the baseline was stored, so the cooldown runs
InitEx ==
    /\ motionDetectionActive = TRUE
    /\ motionInterval = TRUE
    /\ timers = 1
    /\ blackScreen = NoBlackScreen
    /\ store = NoStore
    /\ recording = NoRecording
    /\ lastFrame = ExBlackFrame
    /\ refFrame = ExBlackFrame
    /\ sensitivity \in ExSensitivities
    /\ motionThreshold \in ThresholdValues
    /\ cooldownPeriod = DefaultCooldownPeriod
    /\ clock = Epoch
    /\ videoReady = TRUE
    /\ lastStep = StepInfo("baseline", -1, FALSE, FALSE)
    /\ \E emittedBefore \in BOOLEAN :
          IF emittedBefore
          THEN /\ alerts = <<NewAlert(clock, 1, Len(ExBlackFrame))>>
               /\ sessionCaptures = 1
               /\ lastCaptureTime = clock
          ELSE /\ alerts = <<>>
               /\ sessionCaptures = 0
               /\ lastCaptureTime = 0
    /\ intro = IntroOver

\* the cycle that follows the baseline cycle
ExSecondFrame ==
    /\ lastStep.kind = "baseline"
    /\ \E frame \in ExFrames : DetectMotion(frame, TRUE, TRUE)
    /\ UNCHANGED <<motionDetectionActive, motionInterval, sensitivity, motionThreshold,
                   cooldownPeriod, clock, videoReady>>
    /\ UNCHANGED <<intro, timers, recording, store, blackScreen>>

NextEx == ExSecondFrame

SpecEx == InitEx /\ [][NextEx]_vars

---------------------------------------------------------------------------
(* The cooldown of a freshly constructed MotionSecurityCamera, observed at     *)
(* three clock values: the first cycle's, 3000 ms later and 5001 ms later.     *)

\* offsets (ms) of the observed clock values from the first one
CdOffsets == <<0, 3000, 5001>>
\* clock values of the first cycle: zero, and a value Date.now() returns
CdOrigins == {0, Epoch}
\* the clock value of the first cycle of this run
CdOrigin == IF clock >= Epoch THEN Epoch ELSE 0

\* constructed, detection enabled, one cycle run: a black baseline is stored
InitCd ==
    /\ motionDetectionActive = TRUE
    /\ motionInterval = TRUE
    /\ timers = 1
    /\ blackScreen = NoBlackScreen
    /\ store = NoStore
    /\ recording = NoRecording
    /\ lastFrame = AllOf(Black)
    /\ refFrame = AllOf(Black)
    /\ alerts = <<>>
    /\ sessionCaptures = 0
    /\ sensitivity = DefaultSensitivity
    /\ motionThreshold = DefaultMotionThreshold
    /\ cooldownPeriod = DefaultCooldownPeriod
    /\ lastCaptureTime = 0
    /\ clock \in CdOrigins
    /\ videoReady = TRUE
    /\ lastStep = StepInfo("baseline", -1, FALSE, FALSE)
    /\ intro = IntroOver

\* One firing of the interval timer, detection enabled and the video ready
CdTick ==
    /\ ShouldDetect(motionDetectionActive, videoReady)
    /\ \E frame \in VideoFrames, captureOk \in BOOLEAN : DetectMotion(frame, TRUE, captureOk)
    /\ UNCHANGED <<motionDetectionActive, motionInterval, sensitivity, motionThreshold,
                   cooldownPeriod, clock, videoReady>>
    /\ UNCHANGED <<intro, timers, recording, store, blackScreen>>

\* Time passes to the next observed clock value
CdClockAdvance ==
    /\ \E k \in 1..(Len(CdOffsets) - 1) :
          /\ clock = CdOrigin + CdOffsets[k]
          /\ clock' = CdOrigin + CdOffsets[k + 1]
    /\ lastStep' = OtherStep
    /\ UNCHANGED <<motionDetectionActive, motionInterval, lastFrame, alerts, sessionCaptures,
                   sensitivity, motionThreshold, cooldownPeriod, lastCaptureTime, videoReady, refFrame>>
    /\ UNCHANGED <<intro, timers, recording, store, blackScreen>>

NextCd ==
    \/ CdTick
    \/ CdClockAdvance

SpecCd == InitCd /\ [][NextCd]_vars

---------------------------------------------------------------------------
(* MotionSecurityCamera with a collaborator of onMotionDetected that may throw *)
(* (playAlertSound, navigator.vibrate, the list and badge updates): the        *)
(* exception leaves onMotionDetected and is caught by the catch of            *)
(* detectMotion.                                                               *)

\* detectMotion; collabOk = FALSE: a collaborator called after alerts.unshift
\* throws.  The capture and the alert are stored by then; the statements after
\* the call (lastCaptureTime = now, lastFrame = ...) are not reached.
DetectMotionCollab(frame, frameOk, captureOk, collabOk) ==
    IF ~frameOk \/ lastFrame = Null
    THEN DetectMotion(frame, frameOk, captureOk)
    ELSE LET res == CompareFrames(frame, lastFrame, sensitivity, 1, 0)
             pixelCount == Len(frame)
             fire == /\ ExceedsMotionThreshold(res.changedPixels, pixelCount, motionThreshold)
                     /\ ~InCooldown(clock, lastCaptureTime, cooldownPeriod)
         IN  IF fire /\ ~collabOk
             THEN /\ sessionCaptures' = CaptureMotionImage(sessionCaptures, captureOk)
                  /\ alerts' = <<NewAlert(clock, res.changedPixels, pixelCount)>> \o alerts
                  /\ refFrame' = frame
                  /\ lastStep' = StepInfo("failed", res.changedPixels, TRUE, TRUE)
                  /\ UNCHANGED <<lastFrame, lastCaptureTime>>
             ELSE DetectMotion(frame, frameOk, captureOk)

\* a detector that has just stored a black baseline
InitFail ==
    /\ motionDetectionActive = TRUE
    /\ motionInterval = TRUE
    /\ timers = 1
    /\ blackScreen = NoBlackScreen
    /\ store = NoStore
    /\ recording = NoRecording
    /\ lastFrame = AllOf(Black)
    /\ refFrame = AllOf(Black)
    /\ alerts = <<>>
    /\ sessionCaptures = 0
    /\ sensitivity = DefaultSensitivity
    /\ motionThreshold = DefaultMotionThreshold
    /\ cooldownPeriod = DefaultCooldownPeriod
    /\ lastCaptureTime = 0
    /\ clock = Epoch
    /\ videoReady = TRUE
    /\ lastStep = StepInfo("baseline", -1, FALSE, FALSE)
    /\ intro = IntroOver

\* One firing of the interval timer, detection enabled and the video ready
FailTick ==
    /\ ShouldDetect(motionDetectionActive, videoReady)
    /\ Len(alerts) < MaxAlerts
    /\ sessionCaptures < MaxCaptures
    /\ \E frame \in VideoFrames, frameOk \in BOOLEAN, captureOk \in BOOLEAN, collabOk \in BOOLEAN :
          DetectMotionCollab(frame, frameOk, captureOk, collabOk)
    /\ UNCHANGED <<motionDetectionActive, motionInterval, sensitivity, motionThreshold,
                   cooldownPeriod, clock, videoReady>>
    /\ UNCHANGED <<intro, timers, recording, store, blackScreen>>

NextFail ==
    \/ FailTick
    \/ ClockAdvance

SpecFail == InitFail /\ [][NextFail]_vars

---------------------------------------------------------------------------
(* MotionSecurityCamera with a sensitivity slider whose values the page does   *)
(* not confine to 0..100 (the handler stores e.target.value as it comes).      *)

\* values of e.target.value in the input events of the sensitivity slider
RawSensitivityValues == {-20, 0, 30, 100, 150}

\* input event of the sensitivity slider
SensitivityInputRaw ==
    /\ \E v \in RawSensitivityValues : sensitivity' = v
    /\ lastStep' = OtherStep
    /\ UNCHANGED <<motionDetectionActive, motionInterval, lastFrame, alerts, sessionCaptures,
                   motionThreshold, cooldownPeriod, lastCaptureTime, clock, videoReady, refFrame>>
    /\ UNCHANGED <<intro, timers, recording, store, blackScreen>>

\* a detector that has just stored a black baseline
InitSens ==
    /\ motionDetectionActive = TRUE
    /\ motionInterval = TRUE
    /\ timers = 1
    /\ blackScreen = NoBlackScreen
    /\ store = NoStore
    /\ recording = NoRecording
    /\ lastFrame = AllOf(Black)
    /\ refFrame = AllOf(Black)
    /\ alerts = <<>>
    /\ sessionCaptures = 0
    /\ sensitivity = DefaultSensitivity
    /\ motionThreshold = DefaultMotionThreshold
    /\ cooldownPeriod = DefaultCooldownPeriod
    /\ lastCaptureTime = 0
    /\ clock = Epoch
    /\ videoReady = TRUE
    /\ lastStep = StepInfo("baseline", -1, FALSE, FALSE)
    /\ intro = IntroOver

\* One firing of the interval timer, detection enabled and the video ready
SensTick ==
    /\ ShouldDetect(motionDetectionActive, videoReady)
    /\ Len(alerts) < MaxAlerts
    /\ sessionCaptures < MaxCaptures
    /\ \E frame \in VideoFrames, captureOk \in BOOLEAN : DetectMotion(frame, TRUE, captureOk)
    /\ UNCHANGED <<motionDetectionActive, motionInterval, sensitivity, motionThreshold,
                   cooldownPeriod, clock, videoReady>>
    /\ UNCHANGED <<intro, timers, recording, store, blackScreen>>

NextSens ==
    \/ SensTick
    \/ SensitivityInputRaw
    \/ ResetSettings
    \/ ClockAdvance

SpecSens == InitSens /\ [][NextSens]_vars

---------------------------------------------------------------------------
(* SecurityCameraApp (src/intro.js).  Its detector has the fields             *)
(* motionDetectionEnabled (here motionDetectionActive), lastFrame, alerts and  *)
(* sensitivity; it has no cooldown and a fixed motion threshold of 0.5 %.      *)

AppDefaultSensitivity == 50

\* totalDiff > threshold, totalDiff = rDiff + gDiff + bDiff
AppPixelChanged(cur, last, sens, i) ==
    300 * TotalDiffX3(cur, last, i) > ThresholdX300(sens)

\* The comparison loop of SecurityCameraApp.detectMotion from pixel i on
RECURSIVE AppCompareFrames(_, _, _, _, _)
AppCompareFrames(cur, last, sens, i, motionPixels) ==
    IF i > Len(cur)
    THEN [frame |-> cur, motionPixels |-> motionPixels]
    ELSE IF AppPixelChanged(cur, last, sens, i)
         THEN AppCompareFrames([cur EXCEPT ![i] = Highlight(cur[i])], last, sens, i + 1,
                               motionPixels + 1)
         ELSE AppCompareFrames(cur, last, sens, i + 1, motionPixels)

\* motionPercentage > 0.5, motionPercentage = (motionPixels / (width * height)) * 100
AppExceedsMotionThreshold(motionPixels, pixelCount) == motionPixels * 200 > pixelCount

\* the alert SecurityCameraApp.onMotionDetected creates
AppNewAlert(now) == [id |-> now, type |-> "motion"]

InitApp ==
    /\ motionDetectionActive = FALSE
    /\ motionInterval = TRUE
    /\ timers = 1
    /\ blackScreen = NoBlackScreen
    /\ store = NoStore
    /\ recording = NoRecording
    /\ lastFrame = Null
    /\ alerts = <<>>
    /\ sessionCaptures = 0
    /\ sensitivity = AppDefaultSensitivity
    /\ motionThreshold = DefaultMotionThreshold
    /\ cooldownPeriod = DefaultCooldownPeriod
    /\ lastCaptureTime = 0
    /\ clock = Epoch
    /\ videoReady = FALSE
    /\ refFrame = Null
    /\ lastStep = StepInfo("other", -1, FALSE, FALSE)
    /\ intro = IntroOver

\* SecurityCameraApp.detectMotion; frameOk = FALSE is drawImage or
\* getImageData throwing, which ends the timer callback
AppDetectMotion(frame, frameOk) ==
    IF ~frameOk
    THEN /\ lastStep' = StepInfo("failed", -1, FALSE, lastFrame # Null)
         /\ UNCHANGED <<lastFrame, alerts, refFrame>>
    ELSE IF lastFrame = Null
    THEN /\ lastFrame' = frame
         /\ refFrame' = frame
         /\ lastStep' = StepInfo("baseline", -1, FALSE, FALSE)
         /\ UNCHANGED alerts
    ELSE LET res == AppCompareFrames(frame, lastFrame, sensitivity, 1, 0)
             fire == AppExceedsMotionThreshold(res.motionPixels, Len(frame))
         IN  /\ lastFrame' = res.frame
             /\ refFrame' = frame
             /\ lastStep' = StepInfo("compared", res.motionPixels, fire, TRUE)
             /\ alerts' = IF fire THEN <<AppNewAlert(clock)>> \o alerts ELSE alerts

\* One firing of the interval timer of SecurityCameraApp
AppTick ==
    /\ motionInterval
    /\ Len(alerts) < MaxAlerts
    /\ IF motionDetectionActive /\ videoReady
       THEN \E frame \in VideoFrames, frameOk \in BOOLEAN : AppDetectMotion(frame, frameOk)
       ELSE /\ lastStep' = StepInfo("skipped", -1, FALSE, lastFrame # Null)
            /\ UNCHANGED <<lastFrame, alerts, refFrame>>
    /\ UNCHANGED <<motionDetectionActive, motionInterval, sessionCaptures, sensitivity,
                   motionThreshold, cooldownPeriod, lastCaptureTime, clock, videoReady>>
    /\ UNCHANGED <<intro, timers, recording, store, blackScreen>>

\* change event of the motionDetection checkbox
AppMotionDetectionChange ==
    /\ motionDetectionActive' = ~motionDetectionActive
    /\ refFrame' = IF motionDetectionActive THEN Null ELSE refFrame
    /\ lastStep' = StepInfo(IF motionDetectionActive THEN "disable" ELSE "enable",
                            -1, FALSE, lastFrame # Null)
    /\ UNCHANGED <<motionInterval, lastFrame, alerts, sessionCaptures, sensitivity,
                   motionThreshold, cooldownPeriod, lastCaptureTime, clock, videoReady>>
    /\ UNCHANGED <<intro, timers, recording, store, blackScreen>>

\* Click on "switch camera": the tracks are stopped and initCamera runs again;
\* when getUserMedia succeeds (cameraOk) it calls setupMotionDetection, which
\* creates one more interval timer
AppSwitchCamera ==
    /\ timers < MaxTimers
    /\ \E cameraOk \in BOOLEAN : timers' = IF cameraOk THEN timers + 1 ELSE timers
    /\ lastStep' = OtherStep
    /\ UNCHANGED <<motionDetectionActive, motionInterval, lastFrame, alerts, sessionCaptures,
                   sensitivity, motionThreshold, cooldownPeriod, lastCaptureTime, clock,
                   videoReady, refFrame, intro, recording, store, blackScreen>>

NextApp ==
    \/ AppTick
    \/ AppSwitchCamera
    \/ AppMotionDetectionChange
    \/ SensitivityInput
    \/ ClockAdvance
    \/ VideoReadyChange

SpecApp == InitApp /\ [][NextApp]_vars

---------------------------------------------------------------------------
(* Recording in SecurityCameraApp (src/intro.js): motion events that start a   *)
(* recording and set a 30 s stop timer, clicks on the record button, and the   *)
(* expiry of the stop timers.  The detector has reported motion; every timer   *)
(* waits 30 s, so the timers expire in the order they were set.                *)

\* SecurityCameraApp.startRecording, the n-th call; startOk = FALSE is no
\* stream, or MediaRecorder throwing
StartRecording(rec, startOk) ==
    IF startOk
    THEN [rec EXCEPT !.attempts = @ + 1, !.current = rec.attempts + 1, !.isRecording = TRUE]
    ELSE [rec EXCEPT !.attempts = @ + 1]

\* SecurityCameraApp.stopRecording, called by the stop timer timerOf (0: by a click)
StopRecording(rec, timerOf) ==
    IF rec.current # 0
    THEN [rec EXCEPT !.isRecording = FALSE, !.current = 0,
                     !.lastStop = [timerOf |-> timerOf, recording |-> rec.current]]
    ELSE rec

InitRec ==
    /\ motionDetectionActive = TRUE
    /\ motionInterval = TRUE
    /\ timers = 1
    /\ blackScreen = NoBlackScreen
    /\ store = NoStore
    /\ recording = NoRecording
    /\ lastFrame = Null
    /\ alerts = <<>>
    /\ sessionCaptures = 0
    /\ sensitivity = AppDefaultSensitivity
    /\ motionThreshold = DefaultMotionThreshold
    /\ cooldownPeriod = DefaultCooldownPeriod
    /\ lastCaptureTime = 0
    /\ clock = Epoch
    /\ videoReady = TRUE
    /\ refFrame = Null
    /\ lastStep = StepInfo("other", -1, FALSE, FALSE)
    /\ intro = IntroOver

\* SecurityCameraApp.onMotionDetected: the alert, then the auto-record
RecMotionDetected ==
    /\ Len(alerts) < MaxAlerts
    /\ recording.attempts < MaxRecordings
    /\ alerts' = <<AppNewAlert(clock)>> \o alerts
    /\ \E autoRecord \in BOOLEAN, startOk \in BOOLEAN :
          recording' = IF ~recording.isRecording /\ autoRecord
                       THEN [StartRecording(recording, startOk) EXCEPT
                                !.stopTimers = Append(@, recording.attempts + 1)]
                       ELSE recording
    /\ lastStep' = OtherStep
    /\ UNCHANGED <<motionDetectionActive, motionInterval, lastFrame, sessionCaptures,
                   sensitivity, motionThreshold, cooldownPeriod, lastCaptureTime, clock,
                   videoReady, refFrame>>
    /\ UNCHANGED <<intro, timers, store, blackScreen>>

\* Click on the record button: SecurityCameraApp.toggleRecording
RecToggleRecording ==
    /\ recording.attempts < MaxRecordings
    /\ \E startOk \in BOOLEAN :
          recording' = IF recording.isRecording
                       THEN StopRecording(recording, 0)
                       ELSE StartRecording(recording, startOk)
    /\ lastStep' = OtherStep
    /\ UNCHANGED <<motionDetectionActive, motionInterval, lastFrame, alerts, sessionCaptures,
                   sensitivity, motionThreshold, cooldownPeriod, lastCaptureTime, clock,
                   videoReady, refFrame>>
    /\ UNCHANGED <<intro, timers, store, blackScreen>>

\* A stop timer expires: setTimeout(() => this.stopRecording(), 30000)
RecStopTimerExpires ==
    /\ recording.stopTimers # <<>>
    /\ recording' = [StopRecording(recording, Head(recording.stopTimers)) EXCEPT
                        !.stopTimers = Tail(@)]
    /\ lastStep' = OtherStep
    /\ UNCHANGED <<motionDetectionActive, motionInterval, lastFrame, alerts, sessionCaptures,
                   sensitivity, motionThreshold, cooldownPeriod, lastCaptureTime, clock,
                   videoReady, refFrame>>
    /\ UNCHANGED <<intro, timers, store, blackScreen>>

NextRec ==
    \/ RecMotionDetected
    \/ RecToggleRecording
    \/ RecStopTimerExpires
    \/ ClockAdvance

SpecRec == InitRec /\ [][NextRec]_vars

---------------------------------------------------------------------------
(* The stealth overlay of MotionSecurityCamera (src/app.js): the toggle       *)
(* button, the blackScreenMode checkbox, taps on the overlay and the tap-count *)
(* reset timer.  A timer callback runs at its due time or later; the clock is  *)
(* observed every 200 ms.                                                      *)

InitBlack ==
    /\ motionDetectionActive = FALSE
    /\ motionInterval = TRUE
    /\ timers = 1
    /\ recording = NoRecording
    /\ store = NoStore
    /\ blackScreen = NoBlackScreen
    /\ lastFrame = Null
    /\ alerts = <<>>
    /\ sessionCaptures = 0
    /\ sensitivity = DefaultSensitivity
    /\ motionThreshold = DefaultMotionThreshold
    /\ cooldownPeriod = DefaultCooldownPeriod
    /\ lastCaptureTime = 0
    /\ clock = Epoch
    /\ videoReady = FALSE
    /\ refFrame = Null
    /\ lastStep = StepInfo("other", -1, FALSE, FALSE)
    /\ intro = IntroOver

\* The user checks or unchecks the blackScreenMode checkbox
BlackScreenModeChange ==
    /\ blackScreen' = [blackScreen EXCEPT !.checked = ~@]
    /\ lastStep' = OtherStep
    /\ UNCHANGED <<motionDetectionActive, motionInterval, lastFrame, alerts, sessionCaptures,
                   sensitivity, motionThreshold, cooldownPeriod, lastCaptureTime, clock,
                   videoReady, refFrame>>
    /\ UNCHANGED <<intro, timers, recording, store>>

\* A tap: the click event of the overlay
BlackScreenTap ==
    /\ blackScreen' = OverlayClick(blackScreen, clock)
    /\ lastStep' = StepInfo(IF blackScreen.active THEN "tap" ELSE "tapIgnored", -1, FALSE,
                            lastFrame # Null)
    /\ UNCHANGED <<motionDetectionActive, motionInterval, lastFrame, alerts, sessionCaptures,
                   sensitivity, motionThreshold, cooldownPeriod, lastCaptureTime, clock,
                   videoReady, refFrame>>
    /\ UNCHANGED <<intro, timers, recording, store>>

\* The tap-count reset timer runs
TapTimerFires ==
    /\ blackScreen.tapTimer # 0
    /\ clock >= blackScreen.tapTimer
    /\ blackScreen' = [blackScreen EXCEPT !.tapCount = 0, !.tapTimer = 0]
    /\ lastStep' = OtherStep
    /\ UNCHANGED <<motionDetectionActive, motionInterval, lastFrame, alerts, sessionCaptures,
                   sensitivity, motionThreshold, cooldownPeriod, lastCaptureTime, clock,
                   videoReady, refFrame>>
    /\ UNCHANGED <<intro, timers, recording, store>>

\* Time passes
TapClockAdvance ==
    /\ clock < Epoch + MaxTapSteps * TapClockStep
    /\ clock' = clock + TapClockStep
    /\ lastStep' = OtherStep
    /\ UNCHANGED <<motionDetectionActive, motionInterval, lastFrame, alerts, sessionCaptures,
                   sensitivity, motionThreshold, cooldownPeriod, lastCaptureTime, videoReady,
                   refFrame>>
    /\ UNCHANGED <<intro, timers, recording, store, blackScreen>>

NextBlack ==
    \/ ToggleMotionDetection
    \/ BlackScreenModeChange
    \/ BlackScreenTap
    \/ TapTimerFires
    \/ ResetSettings
    \/ TapClockAdvance

SpecBlack == InitBlack /\ [][NextBlack]_vars

---------------------------------------------------------------------------
(* Captures and persistence of MotionSecurityCamera (src/app.js): motion      *)
(* events past the cooldown, manual captures, the maxImages setting, and the  *)
(* reload of the page.  localStorage may hold lists of an earlier session.    *)
(* The runs are shorter than the cooldown: the clock stands still and one    *)
(* motion event occurs; a new instance starts with detection switched off.    *)

\* captures of an earlier session, as many as saveCaptures writes: a day old,
\* the oldest eight days old
OldCaptures ==
    [i \in 1..SavedCaptures |->
        [id |-> Epoch - (IF i = SavedCaptures THEN 8 ELSE 1) * DayMs - i, imageData |-> 1 - i]]

\* alerts of an earlier session, as many as saveAlerts writes
OldAlerts == [i \in 1..SavedAlerts |-> NewAlert(Epoch - i, NPixels, NPixels)]

\* captures localStorage has room for when saveCaptures writes: none (every
\* setItem raises QuotaExceededError), as many as the retry keeps, and all
\* that is written
Rooms == {-1, RetryCaptures, SavedCaptures}

\* values of the maxImages setting
MaxImagesValues == {SmallMaxImages, DefaultMaxStorageImages}

InitStore ==
    /\ motionDetectionActive = TRUE
    /\ motionInterval = TRUE
    /\ timers = 1
    /\ blackScreen = NoBlackScreen
    /\ recording = NoRecording
    /\ \E oldCaptures \in {<<>>, OldCaptures}, oldAlerts \in {<<>>, OldAlerts} :
          /\ store = StoreAtLoad(oldCaptures, oldAlerts, 0, 0)
          /\ alerts = oldAlerts
    /\ lastFrame = Null
    /\ sessionCaptures = 0
    /\ sensitivity = DefaultSensitivity
    /\ motionThreshold = DefaultMotionThreshold
    /\ cooldownPeriod = DefaultCooldownPeriod
    /\ lastCaptureTime = 0
    /\ clock = Epoch
    /\ videoReady = TRUE
    /\ refFrame = Null
    /\ lastStep = StepInfo("other", -1, FALSE, FALSE)
    /\ intro = IntroOver

\* captureMotionImage: captureOk = FALSE is a canvas call throwing before the
\* unshift.  When saveCaptures exhausts the stack, the RangeError is raised
\* either inside a try of saveCaptures (overflowInTry: it is caught there and
\* captureMotionImage goes on to count the capture) or inside a catch, from
\* where it reaches the catch of captureMotionImage.
StoreCaptureMotionImage(captureOk, autoDelete, room, overflowInTry) ==
    LET st == IF captureOk THEN CaptureInto(store, clock, autoDelete, room) ELSE store
        counted == captureOk /\ (st.lastSave.outcome # "stackOverflow" \/ overflowInTry)
    IN  /\ store' = st
        /\ sessionCaptures' = CaptureMotionImage(sessionCaptures, counted)
        /\ lastStep' = StepInfo(IF captureOk THEN "capture" ELSE "other", -1, FALSE,
                                lastFrame # Null)

\* onMotionDetected past the cooldown: captureMotionImage, then the alert and
\* saveAlerts
StoreMotionDetected ==
    /\ motionDetectionActive
    /\ store.taken < MaxTaken
    /\ ~InCooldown(clock, lastCaptureTime, cooldownPeriod)
    /\ \E captureOk \in BOOLEAN, autoDelete \in BOOLEAN, room \in Rooms,
          overflowInTry \in BOOLEAN, alertsOk \in BOOLEAN :
          LET st == IF captureOk THEN CaptureInto(store, clock, autoDelete, room) ELSE store
              counted == captureOk /\ (st.lastSave.outcome # "stackOverflow" \/ overflowInTry)
              list == <<NewAlert(clock, NPixels, NPixels)>> \o alerts
          IN  /\ store' = [st EXCEPT !.storedAlerts = SaveAlerts(list, @, alertsOk),
                                     !.lastSave.alertsSaved = alertsOk]
              /\ alerts' = list
              /\ sessionCaptures' = CaptureMotionImage(sessionCaptures, counted)
              /\ lastStep' = StepInfo(IF captureOk THEN "capture" ELSE "other", -1, TRUE,
                                      lastFrame # Null)
    /\ lastCaptureTime' = clock
    /\ UNCHANGED <<motionDetectionActive, motionInterval, lastFrame, sensitivity,
                   motionThreshold, cooldownPeriod, clock, videoReady, refFrame>>
    /\ UNCHANGED <<intro, timers, recording, blackScreen>>

\* Click on "manual capture"
StoreManualCapture ==
    /\ videoReady
    /\ store.taken < MaxTaken
    /\ \E captureOk \in BOOLEAN, autoDelete \in BOOLEAN, room \in Rooms,
          overflowInTry \in BOOLEAN :
          StoreCaptureMotionImage(captureOk, autoDelete, room, overflowInTry)
    /\ UNCHANGED <<motionDetectionActive, motionInterval, lastFrame, alerts, sensitivity,
                   motionThreshold, cooldownPeriod, lastCaptureTime, clock, videoReady,
                   refFrame>>
    /\ UNCHANGED <<intro, timers, recording, blackScreen>>

\* saveSettings with another value in the maxImages field
StoreSaveSettings ==
    /\ \E maxImages \in MaxImagesValues :
          store' = [store EXCEPT !.maxStorageImages = maxImages,
                                 !.storedMaxImages = maxImages]
    /\ lastStep' = OtherStep
    /\ UNCHANGED <<motionDetectionActive, motionInterval, lastFrame, alerts, sessionCaptures,
                   sensitivity, motionThreshold, cooldownPeriod, lastCaptureTime, clock,
                   videoReady, refFrame>>
    /\ UNCHANGED <<intro, timers, recording, blackScreen>>

\* The page is loaded again: a new instance, whose loadSavedData reads the
\* settings, the captures and the alerts from localStorage
StoreReload ==
    /\ store' = StoreAtLoad(store.storedCaptures, store.storedAlerts, store.storedMaxImages,
                            store.taken)
    /\ alerts' = store.storedAlerts
    /\ sessionCaptures' = 0
    /\ lastCaptureTime' = 0
    /\ motionDetectionActive' = FALSE
    /\ lastStep' = StepInfo("reload", -1, FALSE, FALSE)
    /\ UNCHANGED <<motionInterval, lastFrame, sensitivity, motionThreshold, cooldownPeriod,
                   clock, videoReady, refFrame>>
    /\ UNCHANGED <<intro, timers, recording, blackScreen>>

NextStore ==
    \/ StoreMotionDetected
    \/ StoreManualCapture
    \/ StoreSaveSettings
    \/ StoreReload

SpecStore == InitStore /\ [][NextStore]_vars

---------------------------------------------------------------------------
(* The intro sequence (src/intro.js): page load, IntroManager.start, the terms *)
(* screen, showMainApp.  The page has the elements the code looks up, and      *)
(* app.js has defined MotionSecurityCamera.                                    *)

\* the variables of the detector, which the intro sequence does not touch
detectorVars == <<motionDetectionActive, motionInterval, lastFrame, alerts, sessionCaptures,
                  sensitivity, motionThreshold, cooldownPeriod, lastCaptureTime,
                  clock, videoReady, refFrame, lastStep, timers, recording, store, blackScreen>>

InitIntro ==
    /\ motionDetectionActive = FALSE
    /\ motionInterval = FALSE
    /\ timers = 0
    /\ blackScreen = NoBlackScreen
    /\ store = NoStore
    /\ recording = NoRecording
    /\ lastFrame = Null
    /\ alerts = <<>>
    /\ sessionCaptures = 0
    /\ sensitivity = DefaultSensitivity
    /\ motionThreshold = DefaultMotionThreshold
    /\ cooldownPeriod = DefaultCooldownPeriod
    /\ lastCaptureTime = 0
    /\ clock = Epoch
    /\ videoReady = FALSE
    /\ refFrame = Null
    /\ lastStep = StepInfo("other", -1, FALSE, FALSE)
    /\ \E stored \in StoredTerms : intro = IntroAtLoad(stored)

\* InitializeMainApp without the appInitialized flag
InitializeMainAppNoFlag(i) ==
    [i EXCEPT !.app = "MotionSecurityCamera", !.initCalls = @ + 1, !.constructions = @ + 1]

\* window.initializeMainApp
InitializeMainApp(i) ==
    IF ~i.appInitialized
    THEN [i EXCEPT !.app = "MotionSecurityCamera", !.appInitialized = TRUE,
                   !.initCalls = @ + 1, !.constructions = @ + 1]
    ELSE [i EXCEPT !.initCalls = @ + 1]

\* IntroManager.showMainApp
ShowMainApp(i) == InitializeMainApp([i EXCEPT !.appShown = TRUE])

\* The DOMContentLoaded event: its first listener constructs the IntroManager
\* (which reads the stored acceptance) and calls start, which runs up to its
\* first await; its second listener constructs SecurityCameraApp.
DOMContentLoaded ==
    /\ intro.phase = "unloaded"
    /\ intro' = [intro EXCEPT !.phase = "loading",
                              !.termsAccepted = TermsStillValid(intro.stored),
                              !.app = "SecurityCameraApp"]
    /\ UNCHANGED detectorVars

\* loadAssets: one image ends in load or in error; when its promise is
\* resolved the asset is counted and the progress updated, otherwise start
\* stays at its await
ImageSettled ==
    /\ intro.phase = "loading"
    /\ intro.loadedAssets < AssetCount
    /\ \E loaded \in BOOLEAN :
          intro' = IF LoadImageResolves(loaded)
                   THEN [intro EXCEPT !.loadedAssets = @ + 1,
                                      !.failedAssets = IF loaded THEN @ ELSE @ + 1,
                                      !.loadingProgress =
                                           LoadingProgress(intro.loadedAssets + 1, AssetCount)]
                   ELSE [intro EXCEPT !.phase = "awaiting"]
    /\ UNCHANGED detectorVars

\* loadAssets returns; hideLoadingScreen, then playIntroScenes begins
LoadingDone ==
    /\ intro.phase = "loading"
    /\ intro.loadedAssets = AssetCount
    /\ intro' = [intro EXCEPT !.phase = "scenes"]
    /\ UNCHANGED detectorVars

\* playIntroScenes returns: start shows the main app or the terms screen
ScenesDone ==
    /\ intro.phase = "scenes"
    /\ intro' = IF intro.termsAccepted
                THEN ShowMainApp([intro EXCEPT !.phase = "app"])
                ELSE [intro EXCEPT !.phase = "terms"]
    /\ UNCHANGED detectorVars

\* change event of the acceptTerms checkbox
AcceptTermsChange ==
    /\ intro.phase \in {"terms", "hidingTerms"}
    /\ intro' = [intro EXCEPT !.checked = ~@]
    /\ UNCHANGED detectorVars

\* click on Continue; the terms screen stays clickable while it fades out
ContinueClick ==
    /\ intro.phase \in {"terms", "hidingTerms"}
    /\ intro.initCalls < MaxInitCalls
    /\ intro' = IF intro.checked
                THEN ShowMainApp([intro EXCEPT !.stored = <<0>>, !.phase = "hidingTerms"])
                ELSE intro
    /\ UNCHANGED detectorVars

\* hideTermsScreen: the 500 ms fade is over
TermsHidden ==
    /\ intro.phase = "hidingTerms"
    /\ intro' = [intro EXCEPT !.phase = "app"]
    /\ UNCHANGED detectorVars

\* The page is loaded again: localStorage is all that is kept
Reload ==
    /\ intro.phase # "unloaded"
    /\ intro' = IntroAtLoad(intro.stored)
    /\ UNCHANGED detectorVars

NextIntro ==
    \/ DOMContentLoaded
    \/ ImageSettled
    \/ LoadingDone
    \/ ScenesDone
    \/ AcceptTermsChange
    \/ ContinueClick
    \/ TermsHidden
    \/ Reload

SpecIntro == InitIntro /\ [][NextIntro]_vars

\* One page load, with the events the browser delivers: DOMContentLoaded, the
\* load or error event of every image, and the timers of the delays
NextIntroOnce ==
    \/ DOMContentLoaded
    \/ ImageSettled
    \/ LoadingDone
    \/ ScenesDone
    \/ AcceptTermsChange
    \/ ContinueClick
    \/ TermsHidden

SpecIntroFair ==
    /\ InitIntro
    /\ [][NextIntroOnce]_vars
    /\ WF_vars(DOMContentLoaded)
    /\ WF_vars(ImageSettled)
    /\ WF_vars(LoadingDone)
    /\ WF_vars(ScenesDone)
    /\ WF_vars(TermsHidden)

---------------------------------------------------------------------------
(* Properties of MotionSecurityCamera, checked under Spec *)

\* the latest step was a detection cycle that processed a frame
CycleCompleted(step) == step.kind \in {"baseline", "compared"}

\* C1: no motion event is emitted while motionDetectionActive is false: every
\* step that appends an alert starts and ends with detection enabled.
C1_NoEventWhileDisabled ==
    [][Len(alerts') > Len(alerts) => motionDetectionActive /\ motionDetectionActive']_vars

\* an event has just been emitted, after detection had been toggled on
C1_Witness ==
    /\ lastStep.kind = "compared"
    /\ lastStep.emitted
    /\ motionDetectionActive
    /\ Len(alerts) > 0

C4_FirstFrameIsBaseline ==
    [][refFrame = Null /\ CycleCompleted(lastStep') =>
         /\ lastStep'.kind = "baseline"
         /\ lastFrame' = refFrame'
         /\ alerts' = alerts
         /\ lastCaptureTime' = lastCaptureTime]_vars

\* a baseline was stored after clearMotionArea or a re-enable, events having
\* been emitted before, at the higher sensitivity
C4_Witness ==
    /\ lastStep.kind = "baseline"
    /\ lastFrame = AllOf(White)
    /\ Len(alerts) > 0
    /\ sensitivity = 50

\* C5: every transition from enabled to disabled clears the stored previous
\* frame, and the first frame processed after re-enabling is not compared and
\* triggers nothing.
C5_DisableClearsBaseline ==
    [][/\ motionDetectionActive /\ ~motionDetectionActive' => lastFrame' = Null
       /\ ~motionDetectionActive => lastFrame = Null
       /\ refFrame = Null /\ CycleCompleted(lastStep')
             => lastStep'.kind = "baseline" /\ alerts' = alerts]_vars

\* detection was just disabled while a previous frame was stored
C5_Witness ==
    /\ lastStep.kind = "disable"
    /\ lastStep.hadFrame
    /\ ~motionDetectionActive
    /\ lastFrame = Null

\* C7: after every completed detection cycle the stored previous frame equals
\* the frame the capture source supplied in that cycle.
C7_BaselineIsSuppliedFrame ==
    CycleCompleted(lastStep) => lastFrame = refFrame

\* changed pixels a detector that never modifies its frames counts
CountChanged(cur, prev, sens) ==
    Cardinality({i \in 1..NPixels :
        100 * (Abs(cur[i][1] - prev[i][1]) + Abs(cur[i][2] - prev[i][2])
               + Abs(cur[i][3] - prev[i][3])) > ThresholdX300(sens)})

\* C8: recoloring does not affect the numeric decision: every cycle measures
\* what the detector without recoloring measures, which compares the supplied
\* frame with the frame supplied in the cycle before.
C8_RecolorHasNoEffect ==
    [][lastStep'.kind = "compared" /\ refFrame # Null
          => lastStep'.changed = CountChanged(refFrame', refFrame, sensitivity)]_vars

\* C9: a cycle whose supplied frame is identical to the frame supplied in the
\* immediately preceding cycle measures 0 and emits nothing.
C9_IdenticalFramesNoMotion ==
    [][CycleCompleted(lastStep') /\ refFrame # Null /\ refFrame' = refFrame
          => lastStep'.changed <= 0 /\ alerts' = alerts]_vars

---------------------------------------------------------------------------
(* Property of SecurityCameraApp, checked under SpecApp *)

\* C6: in SecurityCameraApp the first frame processed after the motionDetection
\* checkbox was unchecked and checked again is not compared against a frame
\* stored before disabling and triggers no event.
C6_AppReenableFreshBaseline ==
    [][refFrame = Null /\ CycleCompleted(lastStep')
          => ~lastStep'.hadFrame /\ Len(alerts') = Len(alerts)]_vars

---------------------------------------------------------------------------
(* Property of the frame comparison, checked under SpecFn *)

---------------------------------------------------------------------------
(* The worked example, checked under SpecEx *)

\* frame has exactly one pixel of colour px and is black elsewhere
OnePixelOf(frame, px) ==
    /\ Cardinality({i \in DOMAIN frame : frame[i] = px}) = 1
    /\ \A i \in DOMAIN frame : frame[i] \in {px, Black}

\* C11 as stated: 2 x 2 frame, sensitivity 50, black previous frame, current
\* frame with one pure-red pixel: 1 changed pixel, 25 %, an event (cooldown
\* permitting) at threshold 2 and none at threshold 50.
C11_Original ==
    [][/\ lastStep'.kind = "compared" /\ lastFrame = ExBlackFrame /\ sensitivity = 50
       /\ OnePixelOf(refFrame', Red)
       => /\ lastStep'.changed = 1
          /\ 100 * lastStep'.changed = 25 * Len(refFrame')
          /\ motionThreshold = 2 /\ ~InCooldown(clock, lastCaptureTime, cooldownPeriod)
                => lastStep'.emitted
          /\ motionThreshold = 50 => ~lastStep'.emitted]_vars

\* C11 amended: with the pure-red pixel (mean difference 85, not above 127.5)
\* the cycle counts 0 changed pixels, 0 %, and emits nothing at either
\* threshold; with one white pixel it counts 1 changed pixel, 25 %, and emits
\* exactly when the threshold is 2 and the cooldown has elapsed.
C11_WorkedExample ==
    [][lastStep'.kind = "compared" /\ lastFrame = ExBlackFrame /\ sensitivity = 50 =>
         /\ OnePixelOf(refFrame', Red)
               => /\ lastStep'.changed = 0
                  /\ ~lastStep'.emitted
                  /\ alerts' = alerts
         /\ OnePixelOf(refFrame', White)
               => /\ lastStep'.changed = 1
                  /\ 100 * lastStep'.changed = 25 * Len(refFrame')
                  /\ lastStep'.emitted <=>
                        /\ motionThreshold = 2
                        /\ ~InCooldown(clock, lastCaptureTime, cooldownPeriod)
                  /\ motionThreshold = 50 => alerts' = alerts]_vars

\* the pure-red pixel was compared at threshold 2 with no cooldown running
C11_Witness ==
    /\ lastStep.kind = "compared"
    /\ OnePixelOf(refFrame, Red)
    /\ Len(refFrame) = Len(ExBlackFrame)
    /\ sensitivity = 50
    /\ motionThreshold = 2
    /\ lastCaptureTime = 0
    /\ lastStep.changed = 0

---------------------------------------------------------------------------
(* The extremes of the sensitivity, checked under SpecFn *)

\* C12: at sensitivity 100 every pixel with a non-zero channel difference
\* counts as changed; at sensitivity 0 no pixel of any pair of frames counts as
\* changed, the motion percentage is 0 and no event is emitted.
C12_SensitivityExtremes ==
    [][lastStep'.kind = "compared" =>
         /\ sensitivity = 100 =>
               lastStep'.changed =
                  Cardinality({i \in DOMAIN refFrame' : refFrame'[i][1] # lastFrame[i][1]
                                                        \/ refFrame'[i][2] # lastFrame[i][2]
                                                        \/ refFrame'[i][3] # lastFrame[i][3]})
         /\ sensitivity = 0 => lastStep'.changed = 0 /\ alerts' = alerts]_vars

---------------------------------------------------------------------------
(* The cooldown example, checked under SpecCd *)

\* the cycle just completed measured motion above the motion threshold
Qualifying(step, frame) ==
    /\ step.kind = "compared"
    /\ 100 * step.changed > motionThreshold * Len(frame)

---------------------------------------------------------------------------
(* Skipped and failed cycles of MotionSecurityCamera, checked under Spec *)

\* the kinds of step a firing of the interval timer leaves in lastStep
TimerKinds == {"skipped", "failed", "baseline", "compared"}

\* C14: a timer tick while the video is not ready is skipped entirely: it is
\* not a failed cycle, emits nothing and leaves lastFrame, lastCaptureTime,
\* alerts and the captures unchanged.
C14_NotReadySkips ==
    [][lastStep'.kind \in TimerKinds /\ ~videoReady =>
         /\ lastStep'.kind = "skipped"
         /\ ~lastStep'.emitted
         /\ lastFrame' = lastFrame
         /\ lastCaptureTime' = lastCaptureTime
         /\ alerts' = alerts
         /\ sessionCaptures' = sessionCaptures]_vars

\* a tick was skipped for want of a ready frame, detection being enabled with a
\* previous frame stored and an event emitted earlier
C14_Witness ==
    /\ lastStep.kind = "skipped"
    /\ ~videoReady
    /\ motionDetectionActive
    /\ lastFrame # Null
    /\ Len(alerts) > 0

---------------------------------------------------------------------------
(* Failed cycles with a throwing collaborator, checked under SpecFail *)

\* C15: a detection cycle that fails (an exception while capturing the frame
\* or while a collaborator handles the event, caught in detectMotion) adds no
\* alert and no capture and leaves lastFrame and lastCaptureTime as they were.
C15_FailedCycleReportsNothing ==
    [][lastStep'.kind = "failed" =>
         /\ alerts' = alerts
         /\ sessionCaptures' = sessionCaptures
         /\ lastFrame' = lastFrame
         /\ lastCaptureTime' = lastCaptureTime]_vars

---------------------------------------------------------------------------
(* The range of the sensitivity, checked under SpecSens *)

\* C16: the sensitivity a detection cycle uses for the per-pixel threshold
\* lies in [0, 100], whatever values the slider inputs and the settings reset
\* have delivered.
C16_SensitivityClamped ==
    [][lastStep'.kind = "compared" => sensitivity >= 0 /\ sensitivity <= 100]_vars

---------------------------------------------------------------------------
(* Configuration updates of MotionSecurityCamera, checked under Spec *)

\* the detector parameters a configuration update replaces
DetectorConfig == <<sensitivity, motionThreshold, cooldownPeriod>>

\* C17: a configuration update (saveSettings, resetSettings, a slider input)
\* is one step that no detection cycle overlaps (it is not a timer step and
\* leaves the detector's frame, alerts and lastCaptureTime alone), and every
\* detection cycle decides with the sensitivity, motion threshold and
\* cooldown in force when it starts, so the first cycle after an update uses
\* the new values.
C17_ConfigAtomic ==
    [][/\ DetectorConfig' # DetectorConfig =>
             /\ lastStep'.kind = "other"
             /\ UNCHANGED <<lastFrame, alerts, sessionCaptures, lastCaptureTime,
                            motionDetectionActive>>
       /\ lastStep'.kind = "compared" =>
             /\ DetectorConfig' = DetectorConfig
             /\ lastStep'.changed = CountChanged(refFrame', lastFrame, sensitivity)
             /\ lastStep'.emitted <=>
                   /\ 100 * lastStep'.changed > motionThreshold * NPixels
                   /\ clock - lastCaptureTime >= cooldownPeriod]_vars

\* a cycle decided with updated values of all three parameters: one pixel of
\* three changed, the cooldown elapsed, and no event at motion threshold 50
C17_Witness ==
    /\ lastStep.kind = "compared"
    /\ sensitivity = 50
    /\ motionThreshold = 50
    /\ cooldownPeriod = 2000
    /\ lastStep.changed = 1
    /\ ~lastStep.emitted
    /\ clock - lastCaptureTime >= cooldownPeriod

---------------------------------------------------------------------------
(* Writers of lastFrame in MotionSecurityCamera, checked under Spec *)

\* C18 as stated: lastFrame is written only by a detection cycle (storing the
\* new baseline) and by the transition to disabled (clearing it).
C18_Original ==
    [][lastFrame' # lastFrame =>
         \/ CycleCompleted(lastStep') /\ lastFrame' # Null
         \/ lastStep'.kind = "disable" /\ lastFrame' = Null]_vars

\* C18 amended: lastFrame is written only by a detection cycle (storing the
\* new baseline), by the transition to disabled and by clearMotionArea (both
\* clearing it).
C18_LastFrameWriters ==
    [][lastFrame' # lastFrame =>
         \/ CycleCompleted(lastStep') /\ lastFrame' # Null
         \/ lastStep'.kind \in {"disable", "clear"} /\ lastFrame' = Null]_vars

\* clearMotionArea has just cleared a stored frame while detection is enabled
C18_Witness ==
    /\ lastStep.kind = "clear"
    /\ lastStep.hadFrame
    /\ lastFrame = Null
    /\ motionDetectionActive

---------------------------------------------------------------------------
(* Disabling and the interval timer of MotionSecurityCamera, checked under Spec *)

\* C19 as stated: disabling stops the timer and discards the stored frame, and
\* no tick runs while detection is disabled.
C19_Original ==
    [][/\ motionDetectionActive /\ ~motionDetectionActive'
             => ~motionInterval' /\ lastFrame' = Null
       /\ ~motionDetectionActive => lastStep'.kind \notin TimerKinds]_vars

\* C19 amended: disabling discards the stored frame and leaves the timer
\* scheduled (it is never cancelled); the ticks that run while detection is
\* disabled are skipped and change no detector state.
C19_DisabledTicksSkipped ==
    [][/\ motionDetectionActive /\ ~motionDetectionActive'
             => lastFrame' = Null /\ motionInterval' = motionInterval
       /\ motionInterval => motionInterval'
       /\ ~motionDetectionActive /\ lastStep'.kind \in TimerKinds
             => /\ lastStep'.kind = "skipped"
                /\ UNCHANGED <<lastFrame, alerts, sessionCaptures, lastCaptureTime,
                               sensitivity, motionThreshold, cooldownPeriod,
                               motionDetectionActive, motionInterval>>]_vars

\* a tick ran and was skipped while detection was disabled, the video being
\* ready and an event having been emitted before the disabling
C19_Witness ==
    /\ lastStep.kind = "skipped"
    /\ ~motionDetectionActive
    /\ motionInterval
    /\ videoReady
    /\ lastFrame = Null
    /\ Len(alerts) > 0

---------------------------------------------------------------------------
(* The terms gate of the intro sequence, checked under SpecIntro *)

\* the terms are accepted: an acceptance less than 30 days old is stored, found
\* at page load or written by the click on Continue with the checkbox checked
TermsAccepted == TermsStillValid(intro.stored)

\* C20: no main application object (window.app) exists and the app is not
\* shown before the terms have been accepted.
C20_AppGatedByTerms ==
    (intro.app # "none" \/ intro.appShown) => TermsAccepted

---------------------------------------------------------------------------
(* Initialisation of the main app, checked under SpecIntro *)

\* C21: however often window.initializeMainApp is called during one page load
\* (every click on Continue calls it), MotionSecurityCamera is constructed at
\* most once, only while appInitialized is false, and appInitialized, once
\* set, stays set for as long as the page lives.
C21_SingleInitialization ==
    [][/\ intro'.constructions <= 1
       /\ intro'.constructions > intro.constructions
             => ~intro.appInitialized /\ intro'.appInitialized
       /\ intro.appInitialized /\ intro'.phase # "unloaded"
             => intro'.appInitialized /\ intro'.constructions = intro.constructions]_vars

\* Continue was clicked again while the terms screen faded out
C21_Witness ==
    /\ intro.initCalls >= 2
    /\ intro.constructions = 1
    /\ intro.appInitialized
    /\ intro.phase = "hidingTerms"

---------------------------------------------------------------------------
(* The interval timers of SecurityCameraApp, checked under SpecApp *)

\* C22: at most one motion-detection interval timer is active per application
\* instance, whatever calls of setupMotionDetection the camera
\* re-initialisations have caused.
C22_SingleTimer == timers <= 1


---------------------------------------------------------------------------
(* Properties of the recordings of SecurityCameraApp, checked under SpecRec *)

\* C23: the 30 s stop timer a motion event sets stops only the recording that
\* event started: whenever a stop timer has stopped a recording, it is the
\* recording started by the call of startRecording the timer was set with.
C23_TimerStopsOwnRecording ==
    recording.lastStop.timerOf # 0
        => recording.lastStop.recording = recording.lastStop.timerOf


---------------------------------------------------------------------------
(* Properties of the captures and their persistence, checked under SpecStore *)

\* C24: saveCaptures ends after a bounded number of attempts of its own: its
\* retries never go on until the call stack of the engine is exhausted.
C24_SaveEndsBeforeStackLimit == store.lastSave.outcome # "stackOverflow"

\* the picture captureMotionImage takes in this step
ThisCapture == [id |-> clock, imageData |-> store.taken + 1]

\* newest first: later pictures before earlier ones, ids not increasing
NewestFirst(captures) ==
    \A i, j \in 1..Len(captures) :
        i < j => /\ captures[i].imageData > captures[j].imageData
                 /\ captures[i].id >= captures[j].id

\* C25: after every completed captureMotionImage, captures is ordered newest
\* first, holds at most maxStorageImages captures, begins with the new capture,
\* and is a prefix of the new capture followed by the former list: only
\* captures at the tail, the oldest, were removed.
C25_NewestFirstWithinLimit ==
    [][lastStep'.kind = "capture"
         => /\ NewestFirst(store'.captures)
            /\ Len(store'.captures) <= store'.maxStorageImages
            /\ store'.captures # <<>> /\ store'.captures[1] = ThisCapture
            /\ store'.captures = FirstN(<<ThisCapture>> \o store.captures,
                                        Len(store'.captures))]_vars

\* a capture that exceeded the limit: the list of an earlier session and the
\* new picture, cut to the small maxImages setting
C25_Witness ==
    /\ lastStep.kind = "capture"
    /\ store.maxStorageImages = SmallMaxImages
    /\ Len(store.captures) = SmallMaxImages
    /\ store.captures[1].imageData = store.taken
    /\ store.captures[Len(store.captures)].imageData < 1


---------------------------------------------------------------------------
(* Properties of the stealth overlay, checked under SpecBlack *)

\* C26: in every reachable state the black screen is active only while motion
\* detection is active.
C26_BlackScreenImpliesDetection == blackScreen.active => motionDetectionActive

\* detection was switched off while the overlay was active with one tap
\* counted: the overlay is gone
C26_Witness ==
    /\ lastStep.kind = "disable"
    /\ ~blackScreen.active
    /\ blackScreen.tapInActivation
    /\ blackScreen.tapCount = 1

\* C27 as stated: a tap on the active overlay deactivates it exactly when the
\* previous tap was handled less than 500 ms earlier; tapCount is 0 or 1 after
\* every step; a tap on the inactive overlay changes nothing.
C27_Original ==
    [][/\ lastStep'.kind = "tap"
            => (~blackScreen'.active
                   <=> /\ blackScreen.lastTap # -1
                       /\ clock - blackScreen.lastTap < TapResetMs)
       /\ blackScreen'.tapCount \in {0, 1}
       /\ lastStep'.kind = "tapIgnored" => blackScreen' = blackScreen]_vars

\* C27: a tap on the active overlay deactivates it exactly when tapCount is 1,
\* that is when a tap was handled since the overlay was activated and the
\* reset timer of that tap is still pending; this is the case whenever that
\* tap is less than 500 ms old.  tapCount is 0 or 1 after every step; a tap
\* on the inactive overlay changes nothing.
C27_DoubleTap ==
    [][/\ lastStep'.kind = "tap"
            => /\ ~blackScreen'.active <=> blackScreen.tapCount = 1
               /\ blackScreen.tapCount = 1
                     => /\ blackScreen.tapInActivation
                        /\ blackScreen.tapTimer = blackScreen.lastTap + TapResetMs
               /\ blackScreen.tapInActivation /\ clock - blackScreen.lastTap < TapResetMs
                     => blackScreen.tapCount = 1
       /\ blackScreen'.tapCount \in {0, 1}
       /\ lastStep'.kind = "tapIgnored" => blackScreen' = blackScreen]_vars

\* a double tap has removed the overlay; detection goes on
C27_Witness ==
    /\ lastStep.kind = "tap"
    /\ ~blackScreen.active
    /\ motionDetectionActive
    /\ blackScreen.tapCount = 0


---------------------------------------------------------------------------
(* Properties of the intro sequence, checked under SpecIntroFair *)

\* C29: once IntroManager.start runs, the terms screen or the main app is
\* eventually shown, whether the assets load or fail; the loading progress
\* never decreases and is 100 from the end of loadAssets on.
C29_IntroCompletes ==
    /\ (intro.phase = "loading") ~> (intro.phase \in {"terms", "hidingTerms", "app"})
    /\ [][intro'.loadingProgress >= intro.loadingProgress]_vars
    /\ [](intro.phase \in {"scenes", "terms", "hidingTerms", "app"}
             => intro.loadingProgress = 100)

\* every asset failed to load and the terms screen is shown
C29_Witness ==
    /\ intro.phase = "terms"
    /\ intro.failedAssets = AssetCount
    /\ intro.loadingProgress = 100

===========================================================================





